---------------------------- MODULE Spec2Model ----------------------------
(***************************************************************************)
(* Model of src/src/utils/us_fusion.py (class UsFusion) together with the  *)
(* parts of src/src/utils/geo/locations.py and populations.py it reads.    *)
(*                                                                         *)
(* Python's fractions.Fraction is modelled as a normalised pair <<n, d>>   *)
(* (d > 0, gcd(n, d) = 1), so that equality of pairs is equality of        *)
(* rationals.  A numpy matrix is a sequence of rows, each a sequence of    *)
(* rationals; indices are 1-based here and 0-based in the source.          *)
(***************************************************************************)
EXTENDS Integers, Sequences, FiniteSets, TLC

VARIABLES
    \* ---- a process calling UsFusion.determine_statespace ----
    cache,       \* the lru_cache: entries [key, result], least recent first
    intro,       \* how many keys of the workload have been queried so far
    computed,    \* per key: executions of the function body so far
    evicted,     \* per key: how often its entry was evicted so far
    last,        \* the latest call: its key, outcome and what it executed
    firstOut,    \* per key: the outcome of the first call made with it
    \* ---- threads calling UsFusion.determine_statespace concurrently ----
    thr,         \* per thread: where it is, its key and what it received
    \* ---- one execution of the body of determine_statespace ----
    qKey,        \* the arguments
    qOut,        \* the outcome of the execution
    qDone,       \* whether the body has run
    \* ---- one call of _determine_statespace(H0, W0) ----
    detIn,       \* the input groups (sets of atom indices), in order
    detCand,     \* the candidate output groups, in order
    detH0,       \* the argument H0
    detW0,       \* the argument W0
    detOut,      \* the values computed by the call
    detDone,     \* whether the call has returned
    \* ---- one call of get_weight_row ----
    rowArgs,     \* the arguments (location, season, atoms)
    rowOut,      \* the outcome of the call
    rowDone,     \* whether the call has run
    \* ---- UsFusion.eliminate applied to a matrix (in place) ----
    elimIn,      \* the matrix as it was handed to the first eliminate call
    elimPrev,    \* the matrix as it was before the latest eliminate call
    elimX,       \* the matrix object X (rewritten in place by eliminate)
    elimN,       \* number of eliminate calls made on X so far
    \* ---- one call of UsFusion.matmul of a list of matrices ----
    mulIn,       \* the arguments, in order
    mulOut,      \* the outcome of the call
    mulDone,     \* whether the call has run
    \* ---- epiweek arithmetic: add_epiweeks, delta_epiweeks, add_epiweeks ----
    wkEw,        \* the epiweek argument
    wkI,         \* the number of weeks argument
    wkSum,       \* the outcome of add_epiweeks(wkEw, wkI)
    wkDelta,     \* the outcome of delta_epiweeks(wkEw, sum)
    wkBack,      \* the outcome of add_epiweeks(sum, -wkI)
    wkPc         \* which of the three calls have been made

procVars == <<cache, intro, computed, evicted, last, firstOut>>
concVars == <<thr>>
queryVars == <<qKey, qOut, qDone>>
detVars == <<detIn, detCand, detH0, detW0, detOut, detDone>>
rowVars == <<rowArgs, rowOut, rowDone>>
elimVars == <<elimIn, elimPrev, elimX, elimN>>
mulVars == <<mulIn, mulOut, mulDone>>
weekVars == <<wkEw, wkI, wkSum, wkDelta, wkBack, wkPc>>
vars == <<procVars, concVars, queryVars, detVars, rowVars, elimVars, mulVars,
          weekVars>>

-----------------------------------------------------------------------------
(* Exact rationals: fractions.Fraction *)

Abs(n) == IF n < 0 THEN -n ELSE n

RECURSIVE GCD(_, _)
GCD(a, b) == IF b = 0 THEN a ELSE GCD(b, a % b)

\* Fraction(n, d): the normalised quotient (d # 0)
Frac(n, d) ==
    IF n = 0 THEN <<0, 1>>
    ELSE LET g == GCD(Abs(n), Abs(d))
             s == IF d < 0 THEN -1 ELSE 1
         IN  <<(s * n) \div g, Abs(d) \div g>>

Zero == <<0, 1>>
One == <<1, 1>>
RAdd(x, y) == Frac(x[1] * y[2] + y[1] * x[2], x[2] * y[2])
RSub(x, y) == Frac(x[1] * y[2] - y[1] * x[2], x[2] * y[2])
RMul(x, y) == Frac(x[1] * y[1], x[2] * y[2])
RDiv(x, y) == Frac(x[1] * y[2], x[2] * y[1])
RAbs(x) == <<Abs(x[1]), x[2]>>
RLess(x, y) == x[1] * y[2] < y[1] * x[2]

RECURSIVE RSum(_)
RSum(s) == IF s = <<>> THEN Zero ELSE RAdd(s[1], RSum(Tail(s)))

-----------------------------------------------------------------------------
(* numpy matrices of Fractions *)

\* A numpy array holds its entries: a row given by a rule is evaluated once,
\* to the tuple of its values.
Arr(f) == SubSeq(f, 1, Len(f))

NumRows(X) == Len(X)
NumCols(X) == Len(X[1])
Column(X, c) == Arr([r \in 1..Len(X) |-> X[r][c]])
Transpose(X) == Arr([c \in 1..NumCols(X) |-> Column(X, c)])
ZeroRow(n) == Arr([c \in 1..n |-> Zero])
IsZeroRow(row) == \A c \in 1..Len(row) : row[c] = Zero
\* the number of rows with np.sum(np.abs(row)) > 0
NonzeroRows(X) == Cardinality({r \in 1..Len(X) : ~IsZeroRow(X[r])})

-----------------------------------------------------------------------------
(* UsFusion.eliminate *)

\* X[i, c:] -= X[i, c] * X[r, c:]   (the factor is read before the update)
RowSubtract(X, i, r, c) ==
    [X EXCEPT ![i] = Arr([k \in 1..Len(X[i]) |->
        IF k >= c THEN RSub(X[i][k], RMul(X[i][c], X[r][k])) ELSE X[i][k]])]

\* X[r, c:] /= X[r, c]
\* fault for C9: the pivot row is not divided by its pivot
RowDivide_skipped(X, r, c) == X

RowDivide(X, r, c) ==
    [X EXCEPT ![r] = Arr([k \in 1..Len(X[r]) |->
        IF k >= c THEN RDiv(X[r][k], X[r][c]) ELSE X[r][k]])]

\* temp = X[i, :].copy(); X[i, :] = X[r, :]; X[r, :] = temp
\* fault for C28: temp = X[i, :] is a view, so both rows end as X[r, :]
RowSwap_view(X, i, r) == [X EXCEPT ![i] = X[r]]

RowSwap(X, i, r) == [X EXCEPT ![i] = X[r], ![r] = X[i]]

\* r + np.argmax(np.abs([float(x) for x in X[r:, c]])): the first row at or
\* below r whose entry in column c has the largest magnitude.  float() is
\* monotone, and distinct rationals whose numerators and denominators stay
\* far below 2^53 have distinct doubles, so on the matrices of this model the
\* comparison of the doubles is the comparison of the exact magnitudes.
ArgMaxAbs(X, r, c) ==
    CHOOSE i \in r..Len(X) :
        /\ \A j \in r..Len(X) : ~RLess(RAbs(X[i][c]), RAbs(X[j][c]))
        /\ \A j \in r..(i - 1) : RLess(RAbs(X[j][c]), RAbs(X[i][c]))

\* for i in range(r + 1, num_r): X[i, c:] -= X[i, c] * X[r, c:]
RECURSIVE ClearBelow(_, _, _, _)
ClearBelow(X, i, r, c) ==
    IF i > Len(X) THEN X ELSE ClearBelow(RowSubtract(X, i, r, c), i + 1, r, c)

\* for i in range(r - 1, -1, -1): X[i, c:] -= X[i, c] * X[r, c:]
RECURSIVE ClearAbove(_, _, _, _)
ClearAbove(X, i, r, c) ==
    IF i < 1 THEN X ELSE ClearAbove(RowSubtract(X, i, r, c), i - 1, r, c)

\* the pivot row of one step of the forward loop
\* fault for C25: no search, the current row is the pivot row
PivotRow_current(X, r, c) == r

PivotRow(X, r, c) == ArgMaxAbs(X, r, c)

\* forward elimination: while r < num_r and c < num_c
RECURSIVE Forward(_, _, _)
Forward(X, r, c) ==
    IF r > NumRows(X) \/ c > NumCols(X) THEN X
    ELSE LET i == PivotRow(X, r, c) IN
         IF X[i][c] # Zero
         THEN LET swapped == IF i # r THEN RowSwap(X, i, r) ELSE X
                  scaled == RowDivide(swapped, r, c)
              IN  Forward(ClearBelow(scaled, r + 1, r, c), r + 1, c + 1)
         ELSE Forward(X, r, c + 1)

\* the first column with a nonzero entry in the row, 0 if there is none
LeadCol(row) ==
    IF IsZeroRow(row) THEN 0
    ELSE CHOOSE c \in 1..Len(row) :
            row[c] # Zero /\ \A k \in 1..(c - 1) : row[k] = Zero

\* one row of the backward loop: eliminate the row's leading column above it
\* fault for C2: the backward substitution clears nothing
BackwardRow_skipped(X, r) == X

BackwardRow(X, r) ==
    LET c == LeadCol(X[r]) IN
    IF c = 0 THEN X ELSE ClearAbove(X, r - 1, r, c)

\* backward substitution: for r in range(num_r - 1, -1, -1)
RECURSIVE Backward(_, _)
Backward(X, r) ==
    IF r < 1 THEN X ELSE Backward(BackwardRow(X, r), r - 1)

eliminate(X) == Backward(Forward(X, 1, 1), NumRows(X))

-----------------------------------------------------------------------------
(* UsFusion.matmul *)

\* dot = lambda U, V: sum(u * v for (u, v) in zip(U, V))
RECURSIVE dot(_, _)
dot(U, V) ==
    IF U = <<>> \/ V = <<>> THEN Zero
    ELSE RAdd(RMul(U[1], V[1]), dot(Tail(U), Tail(V)))

\* the branch len(matrices) == 2, when size == temp
matmul2(A, B) ==
    Arr([r \in 1..NumRows(A) |->
            Arr([c \in 1..NumCols(B) |-> dot(A[r], Column(B, c))])])

\* matmul of a list of matrices: the product folded from the right (when nothing raises)
RECURSIVE matmul(_)
matmul(matrices) ==
    IF Len(matrices) = 1 THEN matrices[1]
    ELSE IF Len(matrices) = 2 THEN matmul2(matrices[1], matrices[2])
    ELSE matmul(<<matrices[1], matmul(Tail(matrices))>>)

\* fault for C20: the row counts are compared, rows != temp
RECURSIVE matmul_raises_rows(_)
matmul_raises_rows(matrices) ==
    IF Len(matrices) = 1 THEN FALSE
    ELSE IF Len(matrices) = 2
         THEN NumRows(matrices[1]) # NumRows(matrices[2])
    ELSE \/ matmul_raises_rows(Tail(matrices))
         \/ NumRows(matrices[1]) # NumRows(matmul(Tail(matrices)))

\* whether matmul of a list of matrices raises Exception('matrix dimensions do not
\* match'): some pair multiplied in the fold has size != temp
RECURSIVE matmul_raises(_)
matmul_raises(matrices) ==
    IF Len(matrices) = 1 THEN FALSE
    ELSE IF Len(matrices) = 2
         THEN NumCols(matrices[1]) # NumRows(matrices[2])
    ELSE \/ matmul_raises(Tail(matrices))
         \/ NumCols(matrices[1]) # NumRows(matmul(Tail(matrices)))

-----------------------------------------------------------------------------
(* UsFusion._determine_statespace *)

\* fractions(np.eye(size))
Identity(size) ==
    Arr([r \in 1..size |-> Arr([c \in 1..size |-> IF r = c THEN One ELSE Zero])])

\* fault for C19: the rank is read off the shape of B
RankOf_shape(B) == IF NumRows(B) < NumCols(B) THEN NumRows(B) ELSE NumCols(B)

\* rank = np.sum(np.sum(np.abs(B), axis=1) > 0)
RankOf(B) == NonzeroRows(B)

\* B made square: zero rows stacked below, or the rows past size cut off
\* fault for C22: the last size rows are kept, B[-size:, :]
SquareB_tail(B) ==
    LET size == NumCols(B)
        num_rows == NumRows(B)
    IN  IF num_rows < size
        THEN B \o Arr([r \in 1..(size - num_rows) |-> ZeroRow(size)])
        ELSE IF num_rows > size THEN SubSeq(B, num_rows - size + 1, num_rows)
        ELSE B

SquareB(B) ==
    LET size == NumCols(B)
        num_rows == NumRows(B)
    IN  IF num_rows < size
        THEN B \o Arr([r \in 1..(size - num_rows) |-> ZeroRow(size)])
        ELSE IF num_rows > size THEN SubSeq(B, 1, size)
        ELSE B

\* np.hstack((A, B))
HStack(A, B) == Arr([r \in 1..NumRows(A) |-> A[r] \o B[r]])

\* X[:, lo:hi] with 1-based inclusive bounds (empty rows when lo > hi)
ColSlice(X, lo, hi) == Arr([r \in 1..NumRows(X) |-> SubSeq(X[r], lo, hi)])

\* Bi = eliminate(hstack((B.T, I)))[:, size:].T
\* (the transpose of a matrix without columns is taken row by row)
\* fault for C3: the right block is taken without the final transpose
BiOf_untransposed(Bsq) ==
    ColSlice(eliminate(HStack(Transpose(Bsq), Identity(NumCols(Bsq)))),
             NumCols(Bsq) + 1, 2 * NumCols(Bsq))

\* fault for C29: B is stacked without the transpose, np.hstack((B, I))
BiOf_plain(Bsq) ==
    Transpose(ColSlice(eliminate(HStack(Bsq, Identity(NumCols(Bsq)))),
                       NumCols(Bsq) + 1, 2 * NumCols(Bsq)))

BiOf(Bsq) ==
    LET size == NumCols(Bsq)
        IBit == eliminate(HStack(Transpose(Bsq), Identity(size)))
    IN  Transpose(ColSlice(IBit, size + 1, 2 * size))

\* Bi[:, :rank]
\* fault for C26: the columns are taken in reverse order
BiActual_reversed(Bi, rank) ==
    Arr([r \in 1..NumRows(Bi) |-> Arr([c \in 1..rank |-> Bi[r][rank + 1 - c]])])

BiActual(Bi, rank) == ColSlice(Bi, 1, rank)

\* Bi[:, rank:]
\* fault for C1: the slice starts one column early, Bi[:, rank-1:]
BiPseudo_early(Bi, rank) == ColSlice(Bi, rank, NumCols(Bi))

\* fault for C7: the slice starts one column late, Bi[:, rank+1:]
BiPseudo_late(Bi, rank) == ColSlice(Bi, rank + 2, NumCols(Bi))

BiPseudo(Bi, rank) == ColSlice(Bi, rank + 1, NumCols(Bi))

\* np.flatnonzero(np.sum(np.abs(W_pseudo), axis=1) == 0), as 1-based indices
\* fault for C24: the test is inverted, np.sum(...) != 0
ActualRows_inverted(W_pseudo) ==
    SelectSeq([r \in 1..NumRows(W_pseudo) |-> r],
              LAMBDA r : RSum([c \in 1..Len(W_pseudo[r]) |->
                                  RAbs(W_pseudo[r][c])]) # Zero)

ActualRows(W_pseudo) ==
    SelectSeq([r \in 1..NumRows(W_pseudo) |-> r],
              LAMBDA r : RSum([c \in 1..Len(W_pseudo[r]) |->
                                  RAbs(W_pseudo[r][c])]) = Zero)

\* W_actual[actual_rows, :]
\* fault for C4: the first len(actual_rows) rows, W_actual[:len(actual_rows)]
TakeRows_prefix(X, rows) == SubSeq(X, 1, Len(rows))

TakeRows(X, rows) == Arr([k \in 1..Len(rows) |-> X[rows[k]]])

\* _determine_statespace(H0, W0), statement by statement.  Each operator below
\* stands for the statements named in its comment and hands the values
\* computed so far to the next, so that every value is computed once.  H0 and
\* W0 themselves are only read (eliminate works on H0.copy()).  The value is
\* the returned (H, W, actual_rows) together with the locals of the call and
\* with the entries the argument arrays H0 and W0 hold when the call returns;
\* elims counts the calls of eliminate, matmuls those of matmul.

\* return H, W, actual_rows
DetReturn(H0, W0, B0, rank, B, Bi, H, W_actual, W_pseudo, actual_rows) ==
    [H |-> H, W |-> TakeRows(W_actual, actual_rows),
     actual_rows |-> actual_rows, H0 |-> H0, W0 |-> W0,
     rank |-> rank, B0 |-> B0, B |-> B, Bi |-> Bi,
     W_actual |-> W_actual, W_pseudo |-> W_pseudo,
     elims |-> 2, matmuls |-> 3]

\* actual_rows = ...; W = W_actual[actual_rows, :]
DetSelect(H0, W0, B0, rank, B, Bi, H, W_actual, W_pseudo) ==
    DetReturn(H0, W0, B0, rank, B, Bi, H, W_actual, W_pseudo,
              ActualRows(W_pseudo))

\* H = matmul(H0, Bi_actual); W_actual = matmul(W0, Bi_actual);
\* W_pseudo = matmul(W0, Bi_pseudo)
DetProducts(H0, W0, B0, rank, B, Bi, Bi_actual, Bi_pseudo) ==
    DetSelect(H0, W0, B0, rank, B, Bi, matmul(<<H0, Bi_actual>>),
              matmul(<<W0, Bi_actual>>), matmul(<<W0, Bi_pseudo>>))

\* Bi_actual, Bi_pseudo = Bi[:, :rank], Bi[:, rank:]
DetSplit(H0, W0, B0, rank, B, Bi) ==
    DetProducts(H0, W0, B0, rank, B, Bi, BiActual(Bi, rank), BiPseudo(Bi, rank))

\* size, rank, the squared B, and Bi from the eliminated [B.T | I]
DetBasis(H0, W0, B0) ==
    DetSplit(H0, W0, B0, RankOf(B0), SquareB(B0), BiOf(SquareB(B0)))

\* B = UsFusion.eliminate(H0.copy()): the copy is rewritten, H0 is not
\* fault for C23: B = UsFusion.eliminate(H0), H0 itself is rewritten
_determine_statespace_inplace(H0, W0) ==
    DetBasis(eliminate(H0), W0, eliminate(H0))

_determine_statespace(H0, W0) == DetBasis(H0, W0, eliminate(H0))

-----------------------------------------------------------------------------
(* Locations (src/src/utils/geo/locations.py), restricted to the atoms     *)
(* pa, ny_minus_jfk, vi and jfk: every list keeps the order of the source  *)
(* and every region keeps those of its atoms that are among the four.      *)

atom_list == <<"pa", "ny_minus_jfk", "vi", "jfk">>
nat_list == <<"nat">>
hhs_list == <<"hhs2", "hhs3">>
cen_list == <<"cen2">>
ny_state_list == <<"ny">>
region_list == nat_list \o hhs_list \o cen_list \o ny_state_list \o atom_list

region_map ==
    [loc \in {region_list[i] : i \in 1..Len(region_list)} |->
        CASE loc = "nat" -> atom_list
          [] loc = "hhs2" -> <<"jfk", "ny_minus_jfk", "vi">>
          [] loc = "hhs3" -> <<"pa">>
          [] loc = "cen2" -> <<"jfk", "ny_minus_jfk", "pa", "vi">>
          [] loc = "ny" -> <<"jfk", "ny_minus_jfk">>
          [] OTHER -> <<loc>>]

Range(seq) == {seq[i] : i \in 1..Len(seq)}

-----------------------------------------------------------------------------
(* Populations (src/src/utils/geo/populations.py).  The weights of a       *)
(* season are given in whole units of a common quantum, so that the        *)
(* rounding in get_population is exact and the quantum cancels in          *)
(* Fraction(pop, total).  As in the source, the first season has no entry  *)
(* for vi.                                                                 *)

first_season == 2010
last_season == 2017

population_weights ==
    [season \in first_season..last_season |->
        CASE season = 2010 ->
                [a \in {"pa", "ny_minus_jfk", "jfk"} |->
                    CASE a = "pa" -> 3 [] a = "ny_minus_jfk" -> 3 [] OTHER -> 2]
          [] season \in {2011, 2012} ->
                [a \in Range(atom_list) |->
                    CASE a = "pa" -> 3 [] a = "ny_minus_jfk" -> 3
                      [] a = "vi" -> 1 [] OTHER -> 2]
          [] season = 2015 ->
                [a \in Range(atom_list) |->
                    CASE a = "pa" -> 3 [] a = "ny_minus_jfk" -> 4
                      [] a = "vi" -> 1 [] OTHER -> 2]
          [] OTHER ->
                [a \in Range(atom_list) |->
                    CASE a = "pa" -> 3 [] a = "ny_minus_jfk" -> 2
                      [] a = "vi" -> 1 [] OTHER -> 2]]

\* a season argument: None, or an integer
NoSeason == [none |-> TRUE, year |-> 0]
Season(y) == [none |-> FALSE, year |-> y]
\* Python truthiness of the season argument ("if season:")
Truthy(season) == ~season.none /\ season.year # 0

Min(a, b) == IF a < b THEN a ELSE b
Max(a, b) == IF a > b THEN a ELSE b

\* season = max(min(season, last_season), first_season)
ClampSeason(year) == Max(Min(year, last_season), first_season)

\* whether get_population(location, year) raises KeyError
get_population_raises(location, year) ==
    location \notin DOMAIN population_weights[ClampSeason(year)]

\* get_population(location, year) = round(weight * 3.25e8), in quanta
get_population(location, year) ==
    population_weights[ClampSeason(year)][location]

-----------------------------------------------------------------------------
(* UsFusion.get_weight_row and get_weight_matrix *)

\* the year whose table the row is built from: get_population(atom, season)
\* if season is truthy, else get_population(atom) with season=last_season
RowYear(season) == IF Truthy(season) THEN season.year ELSE last_season

\* the population appended for one atom (0 for an atom outside the location)
\* fault for C8: the membership test is dropped
AtomPopulation_any(location, season, atom) == get_population(atom, RowYear(season))

AtomPopulation(location, season, atom) ==
    IF atom \in Range(region_map[location])
    THEN get_population(atom, RowYear(season))
    ELSE 0

\* whether the loop over atoms raises KeyError: the location is not a key of
\* region_map, or a member atom has no entry in the season's table
RowKeyError(location, season, atoms) ==
    /\ atoms # <<>>
    /\ \/ location \notin DOMAIN region_map
       \/ \E k \in 1..Len(atoms) :
             /\ atoms[k] \in Range(region_map[location])
             /\ get_population_raises(atoms[k], RowYear(season))

RECURSIVE IntSum(_)
IntSum(s) == IF s = <<>> THEN 0 ELSE s[1] + IntSum(Tail(s))

\* fault for C14: the sanity check is dropped, Fraction(0, 0) raises
get_weight_row_unchecked(location, season, atoms) ==
    IF RowKeyError(location, season, atoms)
    THEN [err |-> "KeyError", row |-> <<>>]
    ELSE LET atom_populations ==
                 Arr([k \in 1..Len(atoms) |->
                         AtomPopulation(location, season, atoms[k])])
             total_population == IntSum(atom_populations)
         IN  IF total_population = 0
             THEN [err |-> "ZeroDivisionError", row |-> <<>>]
             ELSE [err |-> "none",
                   row |-> Arr([k \in 1..Len(atoms) |->
                              Frac(atom_populations[k], total_population)])]

\* get_weight_row(location, season, atoms): err is "none" when a row is
\* returned, else the exception raised
get_weight_row(location, season, atoms) ==
    IF RowKeyError(location, season, atoms)
    THEN [err |-> "KeyError", row |-> <<>>]
    ELSE LET atom_populations ==
                 Arr([k \in 1..Len(atoms) |->
                         AtomPopulation(location, season, atoms[k])])
             total_population == IntSum(atom_populations)
         IN  IF total_population = 0
             THEN [err |-> "location has no constituent atoms", row |-> <<>>]
             ELSE [err |-> "none",
                   row |-> Arr([k \in 1..Len(atoms) |->
                              Frac(atom_populations[k], total_population)])]

\* get_weight_matrix(locations, season, atoms): the rows stacked in order;
\* the first row that raises ends the call.  calls counts the calls of
\* get_weight_row that were made.
RECURSIVE get_weight_matrix(_, _, _)
get_weight_matrix(locations, season, atoms) ==
    IF locations = <<>> THEN [err |-> "none", M |-> <<>>, calls |-> 0]
    ELSE LET first == get_weight_row(locations[1], season, atoms) IN
         IF first.err # "none"
         THEN [err |-> first.err, M |-> <<>>, calls |-> 1]
         ELSE LET rest == get_weight_matrix(Tail(locations), season, atoms)
              IN  [err |-> rest.err,
                   M |-> IF rest.err = "none" THEN <<first.row>> \o rest.M
                         ELSE <<>>,
                   calls |-> 1 + rest.calls]

-----------------------------------------------------------------------------
(* UsFusion.determine_statespace: the function under the lru_cache *)

\* list(filter(atom_filter, seq)) with atom_filter = a not in exclude
FilterExcluded(seq, exclude_locations) ==
    SelectSeq(seq, LAMBDA a : a \notin Range(exclude_locations))

\* float(x) for a Fraction x: the double nearest to x.  On the values of this
\* model distinct rationals have distinct nearest doubles, so the double is
\* named by the rational it is nearest to; exact tells whether the double
\* equals the rational (the denominator is a power of two).
RECURSIVE IsPowerOfTwo(_)
IsPowerOfTwo(n) == n = 1 \/ (n % 2 = 0 /\ IsPowerOfTwo(n \div 2))
ToFloat(x) == [nearest |-> x, exact |-> IsPowerOfTwo(x[2])]

\* M.astype(np.float)
astype_float(M) ==
    Arr([r \in 1..Len(M) |-> Arr([c \in 1..Len(M[r]) |-> ToFloat(M[r][c])])])

\* the value of a call that raised: nothing is returned
Raised(err, rows) ==
    [err |-> err, H |-> <<>>, W |-> <<>>, output_locations |-> <<>>,
     fast |-> FALSE, rows |-> rows, elims |-> 0, matmuls |-> 0,
     H0 |-> <<>>, W0 |-> <<>>, all_locations |-> <<>>, atoms |-> <<>>,
     W_actual |-> <<>>, W_pseudo |-> <<>>]

\* if set(exclude_locations) & set(input_locations): raise
Overlap(input_locations, exclude_locations) ==
    Range(exclude_locations) \cap Range(input_locations) # {}

\* if set(input_locations) >= set(atoms)
\* fault for C27: the test is set(input_locations) & set(atoms)
FastPath_some(input_locations, atoms) ==
    Range(atoms) \cap Range(input_locations) # {}

FastPath(input_locations, atoms) == Range(atoms) \subseteq Range(input_locations)

\* One execution of the body of determine_statespace, statement by statement
\* (each operator hands the values computed so far to the next).  err is
\* "none" when the call returns (H, W, output_locations); rows, elims and
\* matmuls count the calls of get_weight_row, eliminate and matmul made.

\* the else branch: H, W, selected_rows = _determine_statespace(H0, W0);
\* output_locations = [all_locations[i] for i in selected_rows]; return
\* fault for C18: the first len(selected_rows) locations are reported
BodyGeneral_prefix(all_locations, atoms, H0, W0, inner) ==
    [err |-> "none",
     H |-> astype_float(inner.H), W |-> astype_float(inner.W),
     output_locations |-> SubSeq(all_locations, 1, Len(inner.actual_rows)),
     fast |-> FALSE, rows |-> H0.calls + W0.calls,
     elims |-> inner.elims, matmuls |-> inner.matmuls,
     H0 |-> H0.M, W0 |-> W0.M,
     all_locations |-> all_locations, atoms |-> atoms,
     W_actual |-> inner.W_actual, W_pseudo |-> inner.W_pseudo]

BodyGeneral(all_locations, atoms, H0, W0, inner) ==
    [err |-> "none",
     H |-> astype_float(inner.H), W |-> astype_float(inner.W),
     output_locations |->
         Arr([k \in 1..Len(inner.actual_rows) |->
                 all_locations[inner.actual_rows[k]]]),
     fast |-> FALSE, rows |-> H0.calls + W0.calls,
     elims |-> inner.elims, matmuls |-> inner.matmuls,
     H0 |-> H0.M, W0 |-> W0.M,
     all_locations |-> all_locations, atoms |-> atoms,
     W_actual |-> inner.W_actual, W_pseudo |-> inner.W_pseudo]

\* if set(input_locations) >= set(atoms): H, W, output_locations = H0, W0,
\* all_locations; return H.astype(np.float), W.astype(np.float), ...
BodyFast(all_locations, atoms, H0, W0) ==
    [err |-> "none",
     H |-> astype_float(H0.M), W |-> astype_float(W0.M),
     output_locations |-> all_locations,
     fast |-> TRUE, rows |-> H0.calls + W0.calls,
     elims |-> 0, matmuls |-> 0,
     H0 |-> H0.M, W0 |-> W0.M,
     all_locations |-> all_locations, atoms |-> atoms,
     W_actual |-> <<>>, W_pseudo |-> <<>>]

\* after W0 = get_matrix(all_locations)
BodyBranch(input_locations, all_locations, atoms, H0, W0) ==
    IF W0.err # "none" THEN Raised(W0.err, H0.calls + W0.calls)
    ELSE IF FastPath(input_locations, atoms)
    THEN BodyFast(all_locations, atoms, H0, W0)
    ELSE IF input_locations = <<>>
    \* num_r, num_c = X.shape fails on the one-dimensional np.array([])
    THEN Raised("ValueError", H0.calls + W0.calls)
    ELSE BodyGeneral(all_locations, atoms, H0, W0,
                     _determine_statespace(H0.M, W0.M))

\* after H0 = get_matrix(input_locations)
BodyMatrices(input_locations, season, all_locations, atoms, H0) ==
    IF H0.err # "none" THEN Raised(H0.err, H0.calls)
    ELSE BodyBranch(input_locations, all_locations, atoms, H0,
                    get_weight_matrix(all_locations, season, atoms))

\* after all_locations and atoms have been filtered
BodyLocations(input_locations, season, all_locations, atoms) ==
    BodyMatrices(input_locations, season, all_locations, atoms,
                 get_weight_matrix(input_locations, season, atoms))

\* fault for C10: the sanity check is dropped
determine_statespace_body_unchecked(input_locations, season, exclude_locations) ==
    BodyLocations(input_locations, season,
                  FilterExcluded(region_list, exclude_locations),
                  FilterExcluded(atom_list, exclude_locations))

determine_statespace_body(input_locations, season, exclude_locations) ==
    IF Overlap(input_locations, exclude_locations)
    THEN Raised("input contains excluded locations", 0)
    ELSE BodyLocations(input_locations, season,
                       FilterExcluded(region_list, exclude_locations),
                       FilterExcluded(atom_list, exclude_locations))

-----------------------------------------------------------------------------
(* Inputs of the elimination runs *)

MaxRows == 3
ElimRowPool ==
    {<<Frac(0, 1), Frac(0, 1), Frac(0, 1)>>,
     <<Frac(1, 1), Frac(0, 1), Frac(0, 1)>>,
     <<Frac(0, 1), Frac(1, 1), Frac(0, 1)>>,
     <<Frac(0, 1), Frac(0, 1), Frac(1, 1)>>,
     <<Frac(1, 1), Frac(1, 1), Frac(0, 1)>>,
     <<Frac(0, 1), Frac(1, 1), Frac(1, 1)>>,
     <<Frac(1, 1), Frac(1, 1), Frac(1, 1)>>,
     <<Frac(1, 1), Frac(-1, 1), Frac(0, 1)>>,
     <<Frac(-1, 1), Frac(0, 1), Frac(1, 1)>>,
     <<Frac(2, 1), Frac(1, 1), Frac(0, 1)>>,
     <<Frac(1, 2), Frac(1, 1), Frac(1, 1)>>,
     <<Frac(0, 1), Frac(1, 2), Frac(2, 1)>>,
     <<Frac(1, 3), Frac(2, 3), Frac(0, 1)>>}
ElimInputs == UNION {[1..n -> ElimRowPool] : n \in 1..MaxRows}

ElimStart ==
    /\ elimIn \in ElimInputs
    /\ elimPrev = elimIn
    /\ elimX = elimIn
    /\ elimN = 0

ElimIdle ==
    /\ elimIn = <<>>
    /\ elimPrev = <<>>
    /\ elimX = <<>>
    /\ elimN = 0

\* B = UsFusion.eliminate(X): X is rewritten in place and returned
Eliminate ==
    /\ elimN < 2
    /\ elimPrev' = elimX
    /\ elimX' = eliminate(elimX)
    /\ elimN' = elimN + 1
    /\ UNCHANGED elimIn

-----------------------------------------------------------------------------
(* Inputs of the calls of get_weight_row *)

\* the sublists of a sequence of distinct elements, in the sequence's order
SubLists(seq) ==
    {SelectSeq(seq, LAMBDA a : a \in S) : S \in SUBSET Range(seq)}

RowLocations == Range(region_list)
RowSeasons ==
    {NoSeason, Season(0), Season(2009), Season(2010), Season(2011),
     Season(2015), Season(2017), Season(2018)}
RowAtomLists == SubLists(atom_list) \cup {<<"jfk", "vi", "pa">>}

RowStart ==
    /\ rowArgs \in [location : RowLocations, season : RowSeasons,
                    atoms : RowAtomLists]
    /\ rowOut = [err |-> "pending", row |-> <<>>]
    /\ rowDone = FALSE

RowIdle ==
    /\ rowArgs = [location |-> "nat", season |-> NoSeason, atoms |-> <<>>]
    /\ rowOut = [err |-> "pending", row |-> <<>>]
    /\ rowDone = FALSE

\* UsFusion.get_weight_row(location, season, atoms)
GetWeightRow ==
    /\ ~rowDone
    /\ rowOut' = get_weight_row(rowArgs.location, rowArgs.season, rowArgs.atoms)
    /\ rowDone' = TRUE
    /\ UNCHANGED rowArgs

-----------------------------------------------------------------------------
(* Inputs of the calls of _determine_statespace: weight matrices over      *)
(* three atoms a, b, c (columns 1, 2, 3)                                   *)

MaxInputs == 3
DetAtoms == {1, 2, 3}
DetGroups == (SUBSET DetAtoms) \ {{}}
\* populations of a, b, c: equal, and unequal
DetPopulations == {<<1, 1, 1>>, <<1, 2, 3>>}
\* the candidate outputs {a}, {b}, {c}, {a,b,c}, {a,b}, and all groups
DetCandidates ==
    {<<{1}, {2}, {3}, {1, 2, 3}, {1, 2}>>,
     <<{1, 2, 3}, {1, 2}, {1, 3}, {2, 3}, {1}, {2}, {3}>>}

\* the weight row of a group: each member's share of the group's population
\* some calls with more input groups than atoms
DetTall ==
    {<<{1}, {1, 2}, {1, 2, 3}, {2, 3}>>,
     <<{1, 2}, {1, 2}, {3}, {1, 2, 3}>>,
     <<{1, 2, 3}, {1, 2, 3}, {1, 2, 3}, {1, 2, 3}>>,
     <<{1, 2}, {3}, {1}, {2}>>}

ShareRow(group, pop) ==
    LET total == IntSum([k \in 1..3 |-> IF k \in group THEN pop[k] ELSE 0])
    IN  Arr([k \in 1..3 |-> IF k \in group THEN Frac(pop[k], total) ELSE Zero])

DetStart ==
    /\ detIn \in UNION {[1..n -> DetGroups] : n \in 1..MaxInputs} \cup DetTall
    /\ detCand \in DetCandidates
    /\ \E pop \in DetPopulations :
          /\ detH0 = Arr([k \in 1..Len(detIn) |-> ShareRow(detIn[k], pop)])
          /\ detW0 = Arr([k \in 1..Len(detCand) |-> ShareRow(detCand[k], pop)])
    /\ detOut = <<>>
    /\ detDone = FALSE

DetIdle ==
    /\ detIn = <<>>
    /\ detCand = <<>>
    /\ detH0 = <<>>
    /\ detW0 = <<>>
    /\ detOut = <<>>
    /\ detDone = FALSE

\* H, W, selected_rows = UsFusion._determine_statespace(H0, W0)
DetermineInner ==
    /\ ~detDone
    /\ detOut' = _determine_statespace(detH0, detW0)
    /\ detH0' = detOut'.H0
    /\ detW0' = detOut'.W0
    /\ detDone' = TRUE
    /\ UNCHANGED <<detIn, detCand>>

-----------------------------------------------------------------------------
(* Arguments of determine_statespace *)

InputChoices ==
    <<<<"nat">>,
      <<"jfk", "xx">>,
      <<"nat", "ny">>,
      <<"ny", "nat">>,
      atom_list,
      <<"hhs2", "ny">>,
      <<"pa", "ny_minus_jfk", "jfk">>,
      <<"pa", "vi">>>>
SeasonChoices ==
    <<NoSeason, Season(2011), Season(2010), Season(2018), Season(0)>>
ExcludeChoices ==
    <<<<>>, <<"jfk">>, <<"vi">>, <<"jfk", "ny_minus_jfk">>, <<"zz">>>>

MakeKey(i, s, e) ==
    [input_locations |-> InputChoices[i], season |-> SeasonChoices[s],
     exclude_locations |-> ExcludeChoices[e]]

AllKeys ==
    {MakeKey(i, s, e) : i \in 1..Len(InputChoices),
                        s \in 1..Len(SeasonChoices),
                        e \in 1..Len(ExcludeChoices)}

\* calls with more inputs than atoms: every atom and a region, out of
\* order; and regions only
TallKeys ==
    {[input_locations |-> inp, season |-> SeasonChoices[s],
      exclude_locations |-> <<"vi">>] :
        inp \in {<<"ny", "jfk", "pa", "ny_minus_jfk">>,
                 <<"ny", "hhs2", "nat", "cen2">>},
        s \in 1..Len(SeasonChoices)}

Body(key) ==
    determine_statespace_body(key.input_locations, key.season,
                              key.exclude_locations)

QueryStart ==
    /\ qKey \in AllKeys \cup TallKeys
    /\ qOut = Raised("pending", 0)
    /\ qDone = FALSE

QueryIdle ==
    /\ qKey = MakeKey(1, 1, 1)
    /\ qOut = Raised("pending", 0)
    /\ qDone = FALSE

\* one execution of the body of determine_statespace (a cache miss)
RunBody ==
    /\ ~qDone
    /\ qOut' = Body(qKey)
    /\ qDone' = TRUE
    /\ UNCHANGED qKey

-----------------------------------------------------------------------------
(* The process: calls of the cached determine_statespace *)

\* functools.lru_cache(maxsize=16)
maxsize == 16

\* the workload: NumKeys distinct keys, queried for the first time in this
\* order; the first NumHot of them may be queried again at any time, as long
\* as the body has run fewer than MaxRuns times for the key
NumKeys == 25
NumHot == 2
MaxRuns == 2
Key(n) ==
    LET i == ((n - 1) % Len(InputChoices)) + 1
        s == (((n - 1) \div Len(InputChoices)) % Len(SeasonChoices)) + 1
        e == IF n = 4 THEN 4 ELSE IF i = 5 THEN 1 ELSE 3
    IN  MakeKey(i, s, e)
ProcKeys == {Key(n) : n \in 1..NumKeys}

\* the result tuple a call returns and the cache stores
ResultOf(out) ==
    [H |-> out.H, W |-> out.W, output_locations |-> out.output_locations]
NoResult == [H |-> <<>>, W |-> <<>>, output_locations |-> <<>>]

CachedKeys == {cache[k].key : k \in 1..Len(cache)}
CacheIndex(key) == CHOOSE k \in 1..Len(cache) : cache[k].key = key
RemoveAt(seq, k) == SubSeq(seq, 1, k - 1) \o SubSeq(seq, k + 1, Len(seq))

\* fault for C12: a hit returns the result of the least recent entry
CacheHit_stale(key) ==
    LET k == CacheIndex(key) IN
    /\ cache' = RemoveAt(cache, k) \o <<cache[k]>>
    /\ last' = [key |-> key, hit |-> TRUE, err |-> "none",
                result |-> cache[1].result,
                rows |-> 0, elims |-> 0, matmuls |-> 0]
    /\ UNCHANGED <<computed, evicted, firstOut>>

\* a cache hit: the stored result is returned, the entry becomes most recent
CacheHit(key) ==
    LET k == CacheIndex(key) IN
    /\ cache' = RemoveAt(cache, k) \o <<cache[k]>>
    /\ last' = [key |-> key, hit |-> TRUE, err |-> "none",
                result |-> cache[k].result,
                rows |-> 0, elims |-> 0, matmuls |-> 0]
    /\ UNCHANGED <<computed, evicted, firstOut>>

\* the end of a cache miss whose body produced out: an exception propagates
\* and nothing is stored; a result is stored, evicting the least recent entry
\* of a full cache
\* the outcome of a call as its caller sees it
Outcome(out) ==
    [called |-> TRUE, err |-> out.err,
     result |-> IF out.err = "none" THEN ResultOf(out) ELSE NoResult]
NotCalled == [called |-> FALSE, err |-> "none", result |-> NoResult]

\* what every return of a miss records: the body ran once more, the caller
\* receives the exception or the result
MissReturns(key, out) ==
    /\ computed' = [computed EXCEPT ![key] = @ + 1]
    /\ last' = [key |-> key, hit |-> FALSE, err |-> out.err,
                result |-> Outcome(out).result,
                rows |-> out.rows, elims |-> out.elims, matmuls |-> out.matmuls]
    /\ firstOut' = IF firstOut[key].called THEN firstOut
                   ELSE [firstOut EXCEPT ![key] = Outcome(out)]

\* fault for C5: lru_cache(maxsize=None), nothing is ever evicted
StoreMiss_unbounded(key, out) ==
    /\ MissReturns(key, out)
    /\ IF out.err # "none" \/ key \in CachedKeys
       THEN UNCHANGED <<cache, evicted>>
       ELSE /\ cache' = cache \o <<[key |-> key, result |-> ResultOf(out)]>>
            /\ UNCHANGED evicted

\* fault for C13: the result is stored without looking for the key again
StoreMiss_blind(key, out) ==
    /\ MissReturns(key, out)
    /\ IF out.err # "none"
       THEN UNCHANGED <<cache, evicted>>
       ELSE IF Len(cache) >= maxsize
       THEN /\ cache' = Tail(cache) \o <<[key |-> key, result |-> ResultOf(out)]>>
            /\ evicted' = [evicted EXCEPT ![cache[1].key] = @ + 1]
       ELSE /\ cache' = cache \o <<[key |-> key, result |-> ResultOf(out)]>>
            /\ UNCHANGED evicted

\* fault for C15: the outcome is stored whether or not the body raised
StoreMiss_any(key, out) ==
    /\ MissReturns(key, out)
    /\ IF key \in CachedKeys
       THEN UNCHANGED <<cache, evicted>>
       ELSE IF Len(cache) >= maxsize
       THEN /\ cache' = Tail(cache) \o <<[key |-> key, result |-> ResultOf(out)]>>
            /\ evicted' = [evicted EXCEPT ![cache[1].key] = @ + 1]
       ELSE /\ cache' = cache \o <<[key |-> key, result |-> ResultOf(out)]>>
            /\ UNCHANGED evicted

\* the end of a cache miss whose body produced out: an exception propagates
\* and nothing is stored; a result is returned and, unless the key was added
\* to the cache while the body ran, stored, evicting the least recent entry
\* of a full cache
StoreMiss(key, out) ==
    /\ MissReturns(key, out)
    /\ IF out.err # "none" \/ key \in CachedKeys
       THEN UNCHANGED <<cache, evicted>>
       ELSE IF Len(cache) >= maxsize
       THEN /\ cache' = Tail(cache) \o <<[key |-> key, result |-> ResultOf(out)]>>
            /\ evicted' = [evicted EXCEPT ![cache[1].key] = @ + 1]
       ELSE /\ cache' = cache \o <<[key |-> key, result |-> ResultOf(out)]>>
            /\ UNCHANGED evicted

\* a cache miss: the body runs
CacheMiss(key) == StoreMiss(key, Body(key))

\* two keys that hold the same identifiers, in whatever order
SameIdentifiers(k1, k2) ==
    /\ Range(k1.input_locations) = Range(k2.input_locations)
    /\ k1.season = k2.season
    /\ Range(k1.exclude_locations) = Range(k2.exclude_locations)

\* UsFusion.determine_statespace(input_locations, season, exclude_locations)
\* fault for C21: the cache compares keys as sets of identifiers
determine_statespace_unordered(key) ==
    IF \E k \in CachedKeys : SameIdentifiers(k, key)
    THEN LET i == CHOOSE j \in 1..Len(cache) : SameIdentifiers(cache[j].key, key)
         IN  /\ cache' = RemoveAt(cache, i) \o <<cache[i]>>
             /\ last' = [key |-> key, hit |-> TRUE, err |-> "none",
                         result |-> cache[i].result,
                         rows |-> 0, elims |-> 0, matmuls |-> 0]
             /\ UNCHANGED <<computed, evicted, firstOut>>
    ELSE CacheMiss(key)

determine_statespace(key) ==
    IF key \in CachedKeys THEN CacheHit(key) ELSE CacheMiss(key)

ProcStart ==
    /\ cache = <<>>
    /\ intro = 0
    /\ computed = [k \in ProcKeys |-> 0]
    /\ evicted = [k \in ProcKeys |-> 0]
    /\ firstOut = [k \in ProcKeys |-> NotCalled]
    /\ last = [key |-> Key(1), hit |-> FALSE, err |-> "no call yet",
               result |-> NoResult, rows |-> 0, elims |-> 0, matmuls |-> 0]

\* the first query of the next key of the workload
CallNew ==
    /\ intro < NumKeys
    /\ intro' = intro + 1
    /\ determine_statespace(Key(intro + 1))

\* a repeated query of one of the first NumHot keys
CallAgain ==
    /\ \E n \in 1..Min(NumHot, intro) :
          /\ Key(n) \in CachedKeys \/ computed[Key(n)] < MaxRuns
          /\ determine_statespace(Key(n))
    /\ UNCHANGED intro

-----------------------------------------------------------------------------
(* Threads calling the cached determine_statespace concurrently.  The      *)
(* lookup and the store of functools.lru_cache are each one atomic step    *)
(* (they run without releasing the interpreter lock); the function body    *)
(* runs between them, and other threads run while it does.                 *)

MaxCalls == 2
NumConcKeys == 3
\* the two callers
Threads == {1, 2}
ConcKeys == {Key(n) : n \in 1..NumConcKeys}

ConcStart ==
    thr = [t \in Threads |->
              [pc |-> "idle", key |-> Key(1), out |-> NotCalled, calls |-> 0]]

\* a thread calls determine_statespace(key): a hit returns the stored result
\* at once, a miss starts the body
ConcLookup(t) ==
    /\ thr[t].pc = "idle"
    /\ thr[t].calls < MaxCalls
    /\ \E key \in ConcKeys :
          IF key \in CachedKeys
          THEN /\ CacheHit(key)
               /\ thr' = [thr EXCEPT ![t] =
                             [pc |-> "idle", key |-> key,
                              out |-> [called |-> TRUE, err |-> "none",
                                       result |-> cache[CacheIndex(key)].result],
                              calls |-> @.calls + 1]]
          ELSE /\ thr' = [thr EXCEPT ![t] =
                             [pc |-> "computing", key |-> key,
                              out |-> NotCalled, calls |-> @.calls]]
               /\ UNCHANGED <<cache, computed, evicted, last, firstOut>>
    /\ UNCHANGED intro

\* the body of a thread's call has produced out: the store step
ConcStore(t, key, out) ==
    /\ StoreMiss(key, out)
    /\ thr' = [thr EXCEPT ![t] =
                  [pc |-> "idle", key |-> key, out |-> Outcome(out),
                   calls |-> @.calls + 1]]
    /\ UNCHANGED intro

\* the body of a thread's call ends
ConcReturn(t) ==
    /\ thr[t].pc = "computing"
    /\ ConcStore(t, thr[t].key, Body(thr[t].key))

-----------------------------------------------------------------------------
(* Inputs of the calls of matmul *)

MaxFactors == 3
MulPool ==
    {<<<<Frac(1, 2)>>>>,
     <<<<Frac(1, 1), Frac(2, 1)>>>>,
     <<<<Frac(1, 1)>>, <<Frac(-1, 1)>>>>,
     <<<<Frac(1, 1), Frac(2, 1)>>, <<Frac(3, 1), Frac(4, 1)>>>>,
     <<<<Frac(0, 1), Frac(1, 1)>>, <<Frac(1, 3), Frac(1, 1)>>>>,
     <<<<Frac(1, 1), Frac(0, 1), Frac(2, 1)>>,
       <<Frac(0, 1), Frac(1, 1), Frac(1, 2)>>>>}
MulInputs == UNION {[1..n -> MulPool] : n \in 1..MaxFactors}

MulStart ==
    /\ mulIn \in MulInputs
    /\ mulOut = [err |-> "pending", M |-> <<>>]
    /\ mulDone = FALSE

MulIdle ==
    /\ mulIn = <<>>
    /\ mulOut = [err |-> "pending", M |-> <<>>]
    /\ mulDone = FALSE

\* UsFusion.matmul applied to mulIn
Multiply ==
    /\ ~mulDone
    /\ mulOut' = IF matmul_raises(mulIn)
                 THEN [err |-> "matrix dimensions do not match", M |-> <<>>]
                 ELSE [err |-> "none", M |-> matmul(mulIn)]
    /\ mulDone' = TRUE
    /\ UNCHANGED mulIn

-----------------------------------------------------------------------------
(* Epiweek arithmetic (src/src/utils/epiweek.py).  An outcome is err =     *)
(* "none" with the returned value, or the message of the exception raised. *)

\* (epiweek // 100, epiweek % 100)
split_epiweek(epiweek) == <<epiweek \div 100, epiweek % 100>>

\* year * 100 + week
join_epiweek(year, week) == year * 100 + week

\* get_num_weeks raises unless 1900 <= year < 2100
get_num_weeks_raises(year) == ~(1900 <= year /\ year < 2100)

\* the number of epiweeks in the year (when it does not raise)
get_num_weeks(year) == IF (year % 28) \in {4, 9, 15, 20, 26} THEN 53 ELSE 52

\* check_epiweek(epiweek): "none" when it returns True.  In
\* 1 <= week <= get_num_weeks(year) the year is looked up only if 1 <= week.
check_epiweek(epiweek) ==
    LET year == split_epiweek(epiweek)[1]
        week == split_epiweek(epiweek)[2]
    IN  IF ~(1 <= week) THEN "invalid epiweek"
        ELSE IF get_num_weeks_raises(year) THEN "not sure how many epiweeks"
        ELSE IF ~(week <= get_num_weeks(year)) THEN "invalid epiweek"
        ELSE "none"

\* while i > 0: ...
\* fault for C30: the step into the next year is not counted (no i -= 1)
RECURSIVE AddForward_uncounted(_, _, _)
AddForward_uncounted(year, week, i) ==
    IF ~(i > 0) THEN [err |-> "none", year |-> year, week |-> week]
    ELSE IF get_num_weeks_raises(year)
    THEN [err |-> "not sure how many epiweeks", year |-> year, week |-> week]
    ELSE LET weeks_in_year == get_num_weeks(year)
             dw == Min(i, weeks_in_year - week)
         IN  IF i - dw > 0 /\ week + dw = weeks_in_year
             THEN AddForward_uncounted(year + 1, 1, i - dw)
             ELSE AddForward_uncounted(year, week + dw, i - dw)

RECURSIVE AddForward(_, _, _)
AddForward(year, week, i) ==
    IF ~(i > 0) THEN [err |-> "none", year |-> year, week |-> week]
    ELSE IF get_num_weeks_raises(year)
    THEN [err |-> "not sure how many epiweeks", year |-> year, week |-> week]
    ELSE LET weeks_in_year == get_num_weeks(year)
             dw == Min(i, weeks_in_year - week)
         IN  IF i - dw > 0 /\ week + dw = weeks_in_year
             THEN AddForward(year + 1, 1, i - dw - 1)
             ELSE AddForward(year, week + dw, i - dw)

\* while i < 0: ...
RECURSIVE AddBackward(_, _, _)
AddBackward(year, week, i) ==
    IF ~(i < 0) THEN [err |-> "none", year |-> year, week |-> week]
    ELSE LET dw == Min(week - 1, -i) IN
         IF i + dw < 0 /\ week - dw = 1
         THEN IF get_num_weeks_raises(year - 1)
              THEN [err |-> "not sure how many epiweeks",
                    year |-> year - 1, week |-> 1]
              ELSE AddBackward(year - 1, get_num_weeks(year - 1), i + dw + 1)
         ELSE AddBackward(year, week - dw, i + dw)

\* add_epiweeks(epiweek, i)
add_epiweeks(epiweek, i) ==
    IF check_epiweek(epiweek) # "none"
    THEN [err |-> check_epiweek(epiweek), val |-> 0]
    ELSE LET year == split_epiweek(epiweek)[1]
             week == split_epiweek(epiweek)[2]
             fwd == AddForward(year, week, i)
             end == IF fwd.err # "none" THEN fwd
                    ELSE AddBackward(fwd.year, fwd.week, IF i > 0 THEN 0 ELSE i)
         IN  IF end.err # "none" THEN [err |-> end.err, val |-> 0]
             ELSE [err |-> "none", val |-> join_epiweek(end.year, end.week)]

\* while y2 > y1: num += get_num_weeks(y2 - 1); y2 -= 1
RECURSIVE DeltaDown(_, _, _)
DeltaDown(y1, y2, num) ==
    IF ~(y2 > y1) THEN num
    ELSE DeltaDown(y1, y2 - 1, num + get_num_weeks(y2 - 1))

\* while y2 < y1: num -= get_num_weeks(y2); y2 += 1
RECURSIVE DeltaUp(_, _, _)
DeltaUp(y1, y2, num) ==
    IF ~(y2 < y1) THEN num
    ELSE DeltaUp(y1, y2 + 1, num - get_num_weeks(y2))

\* delta_epiweeks(ew1, ew2): both epiweeks are checked first, so every year
\* the loops look up lies between two known years
delta_epiweeks(ew1, ew2) ==
    IF check_epiweek(ew1) # "none" THEN [err |-> check_epiweek(ew1), val |-> 0]
    ELSE IF check_epiweek(ew2) # "none"
    THEN [err |-> check_epiweek(ew2), val |-> 0]
    ELSE LET y1 == split_epiweek(ew1)[1]
             w1 == split_epiweek(ew1)[2]
             y2 == split_epiweek(ew2)[1]
             w2 == split_epiweek(ew2)[2]
             num == IF y2 > y1 THEN DeltaDown(y1, y2, 0) ELSE DeltaUp(y1, y2, 0)
         IN  [err |-> "none", val |-> num + w2 - w1]

\* the arguments: weeks at the start, middle and end of years with 52 and
\* with 53 weeks, at both ends of the known years and in between (week 53
\* of a year of 52 weeks is not a valid epiweek), and shifts of up to
\* MaxShift weeks either way
MaxShift == 60

WeekStart ==
    /\ wkEw \in {join_epiweek(y, w) :
                     y \in {1900, 1901, 1902, 2014, 2015, 2098, 2099},
                     w \in {1, 2, 27, 52, 53}}
    /\ wkI \in (-MaxShift)..MaxShift
    /\ wkSum = [err |-> "pending", val |-> 0]
    /\ wkDelta = [err |-> "pending", val |-> 0]
    /\ wkBack = [err |-> "pending", val |-> 0]
    /\ wkPc = "start"

WeekIdle ==
    /\ wkEw = 190001
    /\ wkI = 0
    /\ wkSum = [err |-> "pending", val |-> 0]
    /\ wkDelta = [err |-> "pending", val |-> 0]
    /\ wkBack = [err |-> "pending", val |-> 0]
    /\ wkPc = "start"

\* sum = add_epiweeks(ew, i)
AddWeeks ==
    /\ wkPc = "start"
    /\ wkSum' = add_epiweeks(wkEw, wkI)
    /\ wkPc' = "added"
    /\ UNCHANGED <<wkEw, wkI, wkDelta, wkBack>>

\* delta_epiweeks(ew, sum)
DeltaWeeks ==
    /\ wkPc = "added"
    /\ wkSum.err = "none"
    /\ wkDelta' = delta_epiweeks(wkEw, wkSum.val)
    /\ wkPc' = "measured"
    /\ UNCHANGED <<wkEw, wkI, wkSum, wkBack>>

\* add_epiweeks(sum, -i)
AddBack ==
    /\ wkPc = "measured"
    /\ wkBack' = add_epiweeks(wkSum.val, -wkI)
    /\ wkPc' = "returned"
    /\ UNCHANGED <<wkEw, wkI, wkSum, wkDelta>>

-----------------------------------------------------------------------------
(* Specifications *)

Init ==
    ProcStart /\ ConcStart /\ QueryIdle /\ DetIdle /\ RowIdle /\ ElimIdle /\ MulIdle
      /\ WeekIdle
Next ==
    \/ CallNew
         /\ UNCHANGED <<concVars, queryVars, detVars, rowVars, elimVars, mulVars, weekVars>>
    \/ CallAgain
         /\ UNCHANGED <<concVars, queryVars, detVars, rowVars, elimVars, mulVars, weekVars>>
Spec == Init /\ [][Next]_vars

ConcInit ==
    ProcStart /\ ConcStart /\ QueryIdle /\ DetIdle /\ RowIdle /\ ElimIdle /\ MulIdle
      /\ WeekIdle
ConcNext ==
    \/ \E t \in Threads :
          ConcLookup(t)
            /\ UNCHANGED <<queryVars, detVars, rowVars, elimVars, mulVars, weekVars>>
    \/ \E t \in Threads :
          ConcReturn(t)
            /\ UNCHANGED <<queryVars, detVars, rowVars, elimVars, mulVars, weekVars>>
SpecConc == ConcInit /\ [][ConcNext]_vars

QueryInit ==
    ProcStart /\ ConcStart /\ QueryStart /\ DetIdle /\ RowIdle /\ ElimIdle /\ MulIdle
      /\ WeekIdle
QueryNext ==
    RunBody /\ UNCHANGED <<procVars, concVars, detVars, rowVars, elimVars, mulVars, weekVars>>
SpecQuery == QueryInit /\ [][QueryNext]_vars

DetInit ==
    ProcStart /\ ConcStart /\ QueryIdle /\ DetStart /\ RowIdle /\ ElimIdle /\ MulIdle
      /\ WeekIdle
DetNext ==
    DetermineInner
      /\ UNCHANGED <<procVars, concVars, queryVars, rowVars, elimVars, mulVars, weekVars>>
SpecDet == DetInit /\ [][DetNext]_vars

RowInit ==
    ProcStart /\ ConcStart /\ QueryIdle /\ DetIdle /\ RowStart /\ ElimIdle /\ MulIdle
      /\ WeekIdle
RowNext ==
    GetWeightRow
      /\ UNCHANGED <<procVars, concVars, queryVars, detVars, elimVars, mulVars, weekVars>>
SpecRow == RowInit /\ [][RowNext]_vars

ElimInit ==
    ProcStart /\ ConcStart /\ QueryIdle /\ DetIdle /\ RowIdle /\ ElimStart /\ MulIdle
      /\ WeekIdle
ElimNext ==
    Eliminate
      /\ UNCHANGED <<procVars, concVars, queryVars, detVars, rowVars, mulVars, weekVars>>
SpecElim == ElimInit /\ [][ElimNext]_vars

MulInit ==
    ProcStart /\ ConcStart /\ QueryIdle /\ DetIdle /\ RowIdle /\ ElimIdle /\ MulStart
      /\ WeekIdle
MulNext ==
    Multiply
      /\ UNCHANGED <<procVars, concVars, queryVars, detVars, rowVars, elimVars,
                     weekVars>>
SpecMul == MulInit /\ [][MulNext]_vars

WeekInit ==
    ProcStart /\ ConcStart /\ QueryIdle /\ DetIdle /\ RowIdle /\ ElimIdle /\ MulIdle
      /\ WeekStart
WeekNext ==
    \/ AddWeeks
         /\ UNCHANGED <<procVars, concVars, queryVars, detVars, rowVars, elimVars,
                        mulVars>>
    \/ DeltaWeeks
         /\ UNCHANGED <<procVars, concVars, queryVars, detVars, rowVars, elimVars,
                        mulVars>>
    \/ AddBack
         /\ UNCHANGED <<procVars, concVars, queryVars, detVars, rowVars, elimVars,
                        mulVars>>
SpecWeek == WeekInit /\ [][WeekNext]_vars

-----------------------------------------------------------------------------
(* Reference notions of linear algebra, defined without eliminate *)

\* the matrix without row r and without column c
Minor(X, r, c) ==
    Arr([i \in 1..(Len(X) - 1) |->
        Arr([j \in 1..(Len(X[1]) - 1) |->
            X[IF i < r THEN i ELSE i + 1][IF j < c THEN j ELSE j + 1]])])

\* determinant of a square matrix, by expansion along the first row
RECURSIVE Det(_)
RECURSIVE DetTerms(_, _)
DetTerms(X, c) ==
    IF c > Len(X) THEN Zero
    ELSE LET t == RMul(X[1][c], Det(Minor(X, 1, c)))
         IN  RAdd(IF c % 2 = 1 THEN t ELSE RSub(Zero, t), DetTerms(X, c + 1))
Det(X) == IF Len(X) = 1 THEN X[1][1] ELSE DetTerms(X, 1)

\* the increasing enumeration of a finite set of integers
RECURSIVE SortedSeq(_)
SortedSeq(S) ==
    IF S = {} THEN <<>>
    ELSE LET m == CHOOSE x \in S : \A y \in S : x <= y
         IN  <<m>> \o SortedSeq(S \ {m})

SubMatrix(X, rows, cols) ==
    LET rs == SortedSeq(rows)
        cs == SortedSeq(cols)
    IN  Arr([i \in 1..Len(rs) |-> Arr([j \in 1..Len(cs) |-> X[rs[i]][cs[j]]])])

\* some k x k submatrix of X has a nonzero determinant
HasMinor(X, k) ==
    /\ k <= Len(X)
    /\ k <= Len(X[1])
    /\ \E rows \in {R \in SUBSET (1..Len(X)) : Cardinality(R) = k} :
       \E cols \in {C \in SUBSET (1..Len(X[1])) : Cardinality(C) = k} :
           Det(SubMatrix(X, rows, cols)) # Zero

\* the rank: the size of the largest square submatrix with nonzero determinant
MinorRank(X) ==
    LET sizes == {k \in 1..Len(X) : HasMinor(X, k)}
    IN  IF sizes = {} THEN 0 ELSE CHOOSE k \in sizes : \A j \in sizes : j <= k

\* R is in canonical reduced row echelon form
IsRREF(R) ==
    /\ \A r \in 1..Len(R) :
          LeadCol(R[r]) # 0 =>
             /\ R[r][LeadCol(R[r])] = One
             /\ \A i \in 1..Len(R) : i # r => R[i][LeadCol(R[r])] = Zero
    /\ \A r \in 1..(Len(R) - 1) :
          /\ LeadCol(R[r]) = 0 => LeadCol(R[r + 1]) = 0
          /\ LeadCol(R[r + 1]) # 0 => LeadCol(R[r]) < LeadCol(R[r + 1])

\* v minus its components along the rows of the reduced matrix R
RECURSIVE Residual(_, _, _)
Residual(v, R, r) ==
    IF r > Len(R) THEN v
    ELSE LET c == LeadCol(R[r]) IN
         IF c = 0 THEN Residual(v, R, r + 1)
         ELSE Residual(Arr([k \in 1..Len(v) |-> RSub(v[k], RMul(v[c], R[r][k]))]),
                       R, r + 1)

\* for a reduced R: R and M span the same row space
SameRowSpace(R, M) ==
    /\ \A r \in 1..Len(M) : IsZeroRow(Residual(M[r], R, 1))
    /\ NonzeroRows(R) = MinorRank(M)

-----------------------------------------------------------------------------
(* Properties of _determine_statespace (SpecDet) *)

\* C1: a candidate output group is selected exactly when its row of W0 is a
\* linear combination of the rows of H0 (appending it to H0 does not raise
\* the rank measured by minors), and exactly when its row of
\* W_pseudo is all-zero (so every dropped group has a nonzero W_pseudo row).
C1_IncludedIffInRowSpace ==
    detDone =>
        LET r == MinorRank(detH0)
        IN  \A i \in 1..Len(detW0) :
              /\ (i \in Range(detOut.actual_rows))
                    <=> ~HasMinor(detH0 \o <<detW0[i]>>, r + 1)
              /\ (i \in Range(detOut.actual_rows))
                    <=> IsZeroRow(detOut.W_pseudo[i])

\* a call that kept some candidate groups and dropped others, with two
\* independent inputs
C1_Witness ==
    /\ detDone
    /\ detOut.rank = 2
    /\ Len(detIn) = 3
    /\ \E i \in 1..Len(detW0) : i \notin Range(detOut.actual_rows)
    /\ \E i \in 1..Len(detW0) :
          /\ i \in Range(detOut.actual_rows)
          /\ \A k \in 1..Len(detIn) : detCand[i] # detIn[k]

\* C3: the exact product of H (input-count x rank) with the first rank rows
\* of the reduced H0 is H0, row for row.
C3_HReconstructsH0 ==
    detDone =>
        LET B == eliminate(detH0)
            rank == NonzeroRows(B)
        IN  /\ detOut.rank = rank
            /\ NumRows(detOut.H) = NumRows(detH0)
            /\ NumCols(detOut.H) = rank
            /\ matmul(<<detOut.H, SubSeq(B, 1, rank)>>) = detH0

\* a rank-deficient H0 with unequal weights: three inputs of rank two
C3_Witness ==
    /\ detDone
    /\ Len(detIn) = 3
    /\ detOut.rank = 2
    /\ detIn[1] # detIn[2] /\ detIn[2] # detIn[3] /\ detIn[1] # detIn[3]
    /\ \E r \in 1..3 : \E c \in 1..2 : detOut.H[r][c] \notin {Zero, One}

\* C4: the exact product of W with the first rank rows of the reduced H0 is
\* the rows of W0 of the selected output groups, in the same order.
C4_WReconstructsW0 ==
    detDone =>
        LET B == eliminate(detH0)
            rank == NonzeroRows(B)
        IN  /\ NumRows(detOut.W) = Len(detOut.actual_rows)
            /\ \A k \in 1..(Len(detOut.actual_rows) - 1) :
                  detOut.actual_rows[k] < detOut.actual_rows[k + 1]
            /\ matmul(<<detOut.W, SubSeq(B, 1, rank)>>)
                   = [k \in 1..Len(detOut.actual_rows) |->
                         detW0[detOut.actual_rows[k]]]

\* a call that selected some, not all, of the candidates, the first dropped
C4_Witness ==
    /\ detDone
    /\ detOut.rank = 2
    /\ Len(detOut.actual_rows) >= 2
    /\ Len(detOut.actual_rows) < Len(detW0)
    /\ detOut.actual_rows[1] # 1

\* the scenario of C7: atoms a, b, c of equal weight, the one input {a,b},
\* candidate outputs {a}, {b}, {c}, {a,b,c}, {a,b}
C7_Scenario ==
    /\ detIn = <<{1, 2}>>
    /\ detCand = <<{1}, {2}, {3}, {1, 2, 3}, {1, 2}>>
    /\ detH0 = <<<<Frac(1, 2), Frac(1, 2), Zero>>>>
    /\ detW0[4] = <<Frac(1, 3), Frac(1, 3), Frac(1, 3)>>

\* the groups selected by the call
DetSelected == {detCand[detOut.actual_rows[k]] : k \in 1..Len(detOut.actual_rows)}

\* C7 as stated: in the scenario the rank is 1 and the determined outputs are
\* exactly {a,b} and {a,b,c}.
C7_AsStated ==
    (detDone /\ C7_Scenario) =>
        /\ detOut.rank = 1
        /\ DetSelected = {{1, 2}, {1, 2, 3}}

\* C7 amended: in the scenario the rank is 1 and the only determined output
\* is {a,b}: {a}, {b}, {c} and the total {a,b,c} are all dropped.
C7_OnlyInputDetermined ==
    (detDone /\ C7_Scenario) =>
        /\ detOut.rank = 1
        /\ DetSelected = {{1, 2}}
        /\ detOut.H = <<<<Frac(1, 2)>>>>
        /\ detOut.W = <<<<Frac(1, 2)>>>>

C7_Witness == detDone /\ C7_Scenario /\ detOut.actual_rows = <<5>>

\* C22: in the reduced H0 every nonzero row precedes every zero row, and
\* there are rank of them.  Making B square keeps the rows of the reduced
\* matrix in place: with more inputs than atoms only all-zero rows are cut
\* off, with fewer all-zero rows are appended, and in the square B exactly
\* the first rank rows are nonzero.
C22_SquareKeepsBasis ==
    detDone =>
        LET B0 == detOut.B0
            B == detOut.B
            size == NumCols(detH0)
        IN  /\ NumRows(B0) = NumRows(detH0)
            /\ \A r \in 1..NumRows(B0) : (r <= detOut.rank) <=> ~IsZeroRow(B0[r])
            /\ \A r \in (size + 1)..NumRows(B0) : IsZeroRow(B0[r])
            /\ NumRows(B) = size
            /\ \A r \in 1..size :
                  /\ Len(B[r]) = size
                  /\ B[r] = IF r <= NumRows(B0) THEN B0[r] ELSE ZeroRow(size)
                  /\ (r <= detOut.rank) <=> ~IsZeroRow(B[r])

\* four distinct inputs over three atoms, of full rank: a row is cut off
C22_Witness ==
    /\ detDone
    /\ NumRows(detH0) = 4
    /\ NumCols(detH0) = 3
    /\ detOut.rank = 3
    /\ \A r \in 1..4 : ~IsZeroRow(detH0[r])
    /\ NumRows(detOut.B0) = 4
    /\ NumRows(detOut.B) = 3

\* C23: _determine_statespace reduces a copy of H0: the call leaves every
\* entry of H0 and of W0 as it was, B is the reduced form of H0, and H,
\* W_actual and W_pseudo are the products of the unreduced H0 and W0 with
\* the columns of Bi.
C23_ArgumentsUntouched ==
    /\ [](detDone =>
             /\ detOut.H0 = detH0 /\ detOut.W0 = detW0
             /\ detOut.B0 = eliminate(detH0)
             /\ detOut.H = matmul(<<detH0, BiActual(detOut.Bi, detOut.rank)>>)
             /\ detOut.W_actual
                    = matmul(<<detW0, BiActual(detOut.Bi, detOut.rank)>>)
             /\ detOut.W_pseudo
                    = matmul(<<detW0, BiPseudo(detOut.Bi, detOut.rank)>>))
    /\ [][detH0' = detH0 /\ detW0' = detW0]_vars

\* a call whose H0 is not in reduced form: the copy was rewritten
C23_Witness ==
    /\ detDone
    /\ Len(detIn) = 3
    /\ detOut.B0 # detH0
    /\ detOut.rank = 2
    /\ detOut.H # detH0

\* the matrices the forward loop can end with when any row at or below r
\* with a nonzero entry in column c may be taken as the pivot row
RECURSIVE ForwardAny(_, _, _)
ForwardAny(X, r, c) ==
    IF r > NumRows(X) \/ c > NumCols(X) THEN {X}
    ELSE LET P == {i \in r..NumRows(X) : X[i][c] # Zero} IN
         IF P = {} THEN ForwardAny(X, r, c + 1)
         ELSE UNION {ForwardAny(
                        ClearBelow(RowDivide(IF i # r THEN RowSwap(X, i, r) ELSE X,
                                             r, c),
                                   r + 1, r, c),
                        r + 1, c + 1) : i \in P}

\* the results of eliminate under every such choice of pivot rows
EliminateAny(X) == {Backward(F, NumRows(F)) : F \in ForwardAny(X, 1, 1)}

\* the values _determine_statespace computes under every such choice, in
\* both of its eliminations
DetAnyPivot(H0, W0) ==
    UNION {{DetSplit(H0, W0, B0, RankOf(B0), SquareB(B0),
                     Transpose(ColSlice(IBit, NumCols(B0) + 1, 2 * NumCols(B0))))
              : IBit \in EliminateAny(HStack(Transpose(SquareB(B0)),
                                            Identity(NumCols(B0))))}
             : B0 \in EliminateAny(H0)}

PivotCols == Arr([r \in 1..detOut.rank |-> LeadCol(detOut.B0[r])])

\* a rational between 0 and 1
InUnit(x) == x[2] > 0 /\ 0 <= x[1] /\ x[1] <= x[2]

\* C26: H and W are column selections: entry (i, j) of H is the entry of row
\* i of H0 in the j-th pivot column of the reduced H0, row k of W is the row
\* of W0 of the k-th selected group restricted to the pivot columns, and
\* every entry of H and W is a rational between 0 and 1.
C26_ColumnSelection ==
    detDone =>
        /\ \A j \in 1..(detOut.rank - 1) : PivotCols[j] < PivotCols[j + 1]
        /\ detOut.H =
              [i \in 1..NumRows(detH0) |->
                  [j \in 1..detOut.rank |-> detH0[i][PivotCols[j]]]]
        /\ detOut.W =
              [k \in 1..Len(detOut.actual_rows) |->
                  [j \in 1..detOut.rank |->
                      detW0[detOut.actual_rows[k]][PivotCols[j]]]]
        /\ \A i \in 1..Len(detOut.H) : \A j \in 1..Len(detOut.H[i]) :
              InUnit(detOut.H[i][j])
        /\ \A k \in 1..Len(detOut.W) : \A j \in 1..Len(detOut.W[k]) :
              InUnit(detOut.W[k][j])

\* a call of rank two whose pivot columns are the first and the third, with
\* proper fractions in H
C26_Witness ==
    /\ detDone
    /\ detOut.rank = 2
    /\ PivotCols = <<1, 3>>
    /\ Len(detOut.W) >= 2
    /\ \E i \in 1..Len(detOut.H) : detOut.H[i][1] \notin {Zero, One}

\* the indices of the first occurrence of every input group, in the order
\* of the groups' codes (one bit per atom)
GroupCode(g) == IntSum([k \in 1..3 |-> IF k \in g THEN 2 ^ (k - 1) ELSE 0])
CanonIndex ==
    LET firsts == {i \in 1..Len(detIn) : \A j \in 1..(i - 1) : detIn[j] # detIn[i]}
        codes == SortedSeq({GroupCode(detIn[i]) : i \in firsts})
    IN  Arr([k \in 1..Len(codes) |->
                CHOOSE i \in firsts : GroupCode(detIn[i]) = codes[k]])

\* C28: rank, W and the selected outputs depend only on the set of input
\* groups, and the row of H of an input group is the same wherever and
\* however often the group is listed: a call agrees with the call made with
\* the same groups listed once each in a fixed order.
C28_InputOrderIrrelevant ==
    detDone =>
        LET idx == CanonIndex
            canon == _determine_statespace(Arr([k \in 1..Len(idx) |-> detH0[idx[k]]]),
                                           detW0)
        IN  /\ canon.rank = detOut.rank
            /\ canon.W = detOut.W
            /\ canon.actual_rows = detOut.actual_rows
            /\ \A i \in 1..Len(detIn) : \A k \in 1..Len(idx) :
                  detIn[i] = detIn[idx[k]] => detOut.H[i] = canon.H[k]

\* a call listing one group twice and another between, out of order
C28_Witness ==
    /\ detDone
    /\ Len(detIn) = 3
    /\ detIn[1] = detIn[3]
    /\ detIn[1] # detIn[2]
    /\ CanonIndex = <<2, 1>>
    /\ detOut.rank = 2
    /\ detOut.H[1] = detOut.H[3]
    /\ detOut.H[1] # detOut.H[2]

\* every entry of the matrix is zero
IsZeroMatrix(X) == \A r \in 1..Len(X) : IsZeroRow(X[r])

\* C29: Bi is invertible and B . Bi is the diagonal matrix of rank ones
\* followed by zeros: B . Bi_actual is the identity on its first rank rows
\* with zero rows below, B . Bi_pseudo is zero, and the size - rank columns
\* of Bi_pseudo are independent vectors of the null space of H0.
C29_BiInvertsB ==
    detDone =>
        LET B == detOut.B
            Bi == detOut.Bi
            rank == detOut.rank
            size == NumCols(detH0)
            Bi_pseudo == BiPseudo(Bi, rank)
        IN  /\ NumRows(Bi) = size
            /\ \A r \in 1..size : Len(Bi[r]) = size
            /\ Det(Bi) # Zero
            /\ matmul(<<B, Bi>>) =
                  [r \in 1..size |->
                      [c \in 1..size |->
                          IF r = c /\ r <= rank THEN One ELSE Zero]]
            /\ matmul(<<B, BiActual(Bi, rank)>>) =
                  [r \in 1..size |->
                      [c \in 1..rank |-> IF r = c THEN One ELSE Zero]]
            /\ IsZeroMatrix(matmul(<<B, Bi_pseudo>>))
            /\ IsZeroMatrix(matmul(<<detH0, Bi_pseudo>>))
            /\ MinorRank(Transpose(Bi_pseudo)) = size - rank

\* a call of rank two whose Bi is neither the identity nor B itself
C29_Witness ==
    /\ detDone
    /\ detOut.rank = 2
    /\ detOut.Bi # Identity(3)
    /\ detOut.Bi # detOut.B
    /\ \E r \in 1..3 : BiPseudo(detOut.Bi, 2)[r] # <<Zero>>
    /\ \E r \in 1..3 : \E c \in 1..3 : detOut.Bi[r][c][1] < 0

\* C19: the rank is the number of nonzero rows of the reduced H0, equals the
\* dimension of the row space of H0 and is at most the number of inputs and
\* the number of atoms; H has one row per input and rank columns, and W (and
\* W_actual) have rank columns.
C19_RankIsRowSpaceDimension ==
    detDone =>
        /\ detOut.rank = NonzeroRows(detOut.B0)
        /\ detOut.rank = MinorRank(detH0)
        /\ detOut.rank <= NumRows(detH0)
        /\ detOut.rank <= NumCols(detH0)
        /\ NumRows(detOut.H) = NumRows(detH0)
        /\ \A r \in 1..Len(detOut.H) : Len(detOut.H[r]) = detOut.rank
        /\ \A r \in 1..Len(detOut.W) : Len(detOut.W[r]) = detOut.rank
        /\ \A r \in 1..Len(detOut.W_actual) : Len(detOut.W_actual[r]) = detOut.rank

\* an input group given twice: the rank is below the number of inputs
C19_Witness ==
    /\ detDone
    /\ Len(detIn) = 2
    /\ detIn[1] = detIn[2]
    /\ detOut.rank = 1
    /\ Len(detOut.W) >= 1

-----------------------------------------------------------------------------
(* Properties of matmul (SpecMul) *)

\* entry (r, c) of the product of A and B: the sum over i of A[r,i] * B[i,c]
RefProduct(A, B) ==
    [r \in 1..Len(A) |->
        [c \in 1..Len(B[1]) |->
            RSum([i \in 1..Len(B) |-> RMul(A[r][i], B[i][c])])]]

\* M1.(M2.(...Mk)), for matrices whose dimensions agree
RECURSIVE RefRightFold(_)
RefRightFold(ms) ==
    IF Len(ms) = 1 THEN ms[1] ELSE RefProduct(ms[1], RefRightFold(Tail(ms)))

\* two neighbours of the chain have differing inner dimensions
ChainMismatch(ms) ==
    \E k \in 1..(Len(ms) - 1) : Len(ms[k][1]) # Len(ms[k + 1])

\* C20: matmul returns the exact product folded from the right, with each
\* entry the exact sum of the products over the inner index; a single matrix
\* is returned as it is; and the call raises the dimension error, producing
\* no matrix, exactly when a pair multiplied in the fold has differing inner
\* dimensions.
C20_MatmulIsRightFold ==
    mulDone =>
        IF ChainMismatch(mulIn)
        THEN /\ mulOut.err = "matrix dimensions do not match"
             /\ mulOut.M = <<>>
        ELSE /\ mulOut.err = "none"
             /\ mulOut.M = RefRightFold(mulIn)
             /\ Len(mulIn) = 1 => mulOut.M = mulIn[1]

\* a product of three matrices of different shapes
C20_Witness ==
    /\ mulDone
    /\ Len(mulIn) = 3
    /\ mulOut.err = "none"
    /\ Len(mulIn[1]) = 1 /\ Len(mulIn[1][1]) = 2
    /\ mulIn[2] # mulIn[3]
    /\ Len(mulOut.M[1]) = 3

-----------------------------------------------------------------------------
(* Properties of get_weight_row (SpecRow) *)

\* C8: a returned row has one entry per atom, in atom order; every entry is
\* non-negative, the entry of an atom outside the group is 0, and the
\* entries sum to exactly 1.
C8_WeightRowSumsToOne ==
    (rowDone /\ rowOut.err = "none") =>
        /\ Len(rowOut.row) = Len(rowArgs.atoms)
        /\ \A k \in 1..Len(rowOut.row) :
              /\ rowOut.row[k][1] >= 0 /\ rowOut.row[k][2] > 0
              /\ rowArgs.atoms[k] \notin Range(region_map[rowArgs.location])
                    => rowOut.row[k] = Zero
              /\ rowArgs.atoms[k] \in Range(region_map[rowArgs.location])
                    => rowOut.row[k] # Zero
        /\ RSum(rowOut.row) = One

\* a row of a proper region over all atoms: shares that are proper
\* fractions, and a zero for the atom outside the region
C8_Witness ==
    /\ rowDone
    /\ rowOut.err = "none"
    /\ rowArgs.location = "hhs2"
    /\ rowArgs.atoms = atom_list
    /\ rowArgs.season = Season(2015)
    /\ rowOut.row = <<Zero, Frac(4, 7), Frac(1, 7), Frac(2, 7)>>

\* the listed atoms that are members of the location of the call
RowMembers == Range(rowArgs.atoms) \cap Range(region_map[rowArgs.location])

\* the population table the call reads
RowTable == population_weights[ClampSeason(RowYear(rowArgs.season))]

\* C14 as stated: whenever no listed atom is a member, or the season's table
\* has no data for the listed members, the call fails with the
\* degenerate-group error; a returned row has a member with data.
C14_AsStated ==
    rowDone =>
        /\ (RowMembers \cap DOMAIN RowTable = {}) =>
              /\ rowOut.err = "location has no constituent atoms"
              /\ rowOut.row = <<>>
        /\ rowOut.err = "none" => RowMembers \cap DOMAIN RowTable # {}

\* C14 amended: the call fails with the degenerate-group error when no listed
\* atom is a member of the group; when the season's table has no entry for a
\* listed member it raises KeyError instead (also when other members have
\* data); a returned row is one of a group with positive total weight.
C14_DegenerateOrKeyError ==
    rowDone =>
        /\ RowMembers = {} =>
              /\ rowOut.err = "location has no constituent atoms"
              /\ rowOut.row = <<>>
        /\ (RowMembers \ DOMAIN RowTable # {}) =>
              /\ rowOut.err = "KeyError"
              /\ rowOut.row = <<>>
        /\ rowOut.err = "none" =>
              /\ RowMembers # {}
              /\ RowMembers \subseteq DOMAIN RowTable
              /\ \A a \in RowMembers : RowTable[a] > 0

\* a region of which one member has no data in the season: KeyError, although
\* the other members have data
C14_Witness ==
    /\ rowDone
    /\ rowArgs.location = "hhs2"
    /\ rowArgs.season = Season(2010)
    /\ rowArgs.atoms = atom_list
    /\ rowOut.err = "KeyError"

\* the table of the year max(first_season, min(year, last_season))
ClampedTable(year) ==
    population_weights[IF year < first_season THEN first_season
                       ELSE IF year > last_season THEN last_season ELSE year]

\* the weight of an atom for the call's location in a table (0 when it is
\* not a member or has no entry)
TableShare(table, a) ==
    IF a \in Range(region_map[rowArgs.location]) /\ a \in DOMAIN table
    THEN table[a] ELSE 0

\* C17 as stated: for every integer season the returned weights are those of
\* the table of the clamped year, and a row is returned whenever that table
\* has data for the listed members.
C17_AsStated ==
    (rowDone /\ ~rowArgs.season.none) =>
        LET table == ClampedTable(rowArgs.season.year)
            total == IntSum([k \in 1..Len(rowArgs.atoms) |->
                                TableShare(table, rowArgs.atoms[k])])
        IN  /\ (RowMembers # {} /\ RowMembers \subseteq DOMAIN table)
                  => rowOut.err = "none"
            /\ rowOut.err = "none" =>
                  /\ total > 0
                  /\ \A k \in 1..Len(rowArgs.atoms) :
                        rowOut.row[k] = Frac(TableShare(table, rowArgs.atoms[k]), total)

-----------------------------------------------------------------------------
(* Properties of one execution of determine_statespace (SpecQuery) *)

\* the atom basis of a key: all known atoms minus the excluded ones
KeyAtoms(key) == FilterExcluded(atom_list, key.exclude_locations)
KeyLocations(key) == FilterExcluded(region_list, key.exclude_locations)

\* the premise of C6: the inputs contain every atom of the basis and share
\* no identifier with the exclusions
C6_Premise ==
    /\ Range(KeyAtoms(qKey)) \subseteq Range(qKey.input_locations)
    /\ ~Overlap(qKey.input_locations, qKey.exclude_locations)

\* the fast-path result: H0, W0 (as floats) and all_groups, no elimination
C6_FastResult ==
    /\ qOut.err = "none"
    /\ qOut.H = astype_float(
           get_weight_matrix(qKey.input_locations, qKey.season, KeyAtoms(qKey)).M)
    /\ qOut.W = astype_float(
           get_weight_matrix(KeyLocations(qKey), qKey.season, KeyAtoms(qKey)).M)
    /\ qOut.output_locations = KeyLocations(qKey)
    /\ qOut.elims = 0
    /\ qOut.matmuls = 0

\* C6 as stated: under the premise, for any season and exclusion set, the
\* call returns H = H0, W = W0, output_groups = all_groups without elimination.
C6_AsStated == (qDone /\ C6_Premise) => C6_FastResult

\* the inputs of the key are known locations that keep an atom of the basis,
\* and share no identifier with the exclusions
C11_Premise ==
    /\ ~Overlap(qKey.input_locations, qKey.exclude_locations)
    /\ \A g \in Range(qKey.input_locations) :
          /\ g \in DOMAIN region_map
          /\ Range(region_map[g]) \cap Range(KeyAtoms(qKey)) # {}

\* C11 as stated: a group all of whose atoms are excluded is not a candidate
\* output, so with exclusions disjoint from the inputs no weight row is built
\* for a group without atoms: the call never raises 'location has no
\* constituent atoms', and every candidate of a returned call keeps an atom.
C11_AsStated ==
    (qDone /\ C11_Premise) =>
        /\ qOut.err # "location has no constituent atoms"
        /\ \A g \in Range(qOut.all_locations) :
              Range(region_map[g]) \cap Range(KeyAtoms(qKey)) # {}

\* C16 as stated: whenever the inputs or the exclusions hold an identifier
\* that is not a known location (and the two share no identifier, which is
\* the overlap error of C10), the call fails with a lookup error and returns
\* nothing.
C16_AsStated ==
    (/\ qDone
     /\ ~Overlap(qKey.input_locations, qKey.exclude_locations)
     /\ \E id \in Range(qKey.input_locations) \cup Range(qKey.exclude_locations) :
           id \notin DOMAIN region_map)
        => /\ qOut.err = "KeyError"
           /\ ResultOf(qOut) = NoResult

\* the indices of the candidates whose W_pseudo row is all-zero, ascending
C18_Kept ==
    SelectSeq([i \in 1..Len(qOut.all_locations) |-> i],
              LAMBDA i : IsZeroRow(qOut.W_pseudo[i]))

\* C18: on the general path output_locations is the subsequence of
\* all_locations, in order, of the groups whose W_pseudo row is all-zero, and
\* row k of W is the W_actual row of the k-th of them (as floats).
C18_OutputsAreZeroPseudoRows ==
    (qDone /\ qOut.err = "none" /\ ~qOut.fast) =>
        /\ Len(qOut.W_pseudo) = Len(qOut.all_locations)
        /\ qOut.output_locations =
               [k \in 1..Len(C18_Kept) |-> qOut.all_locations[C18_Kept[k]]]
        /\ Len(qOut.W) = Len(qOut.output_locations)
        /\ \A k \in 1..Len(qOut.W) :
              <<qOut.W[k]>> = astype_float(<<qOut.W_actual[C18_Kept[k]]>>)

\* a general-path call that drops the first candidate and keeps later ones
C18_Witness ==
    /\ qDone /\ qOut.err = "none" /\ ~qOut.fast
    /\ Len(qOut.output_locations) >= 2
    /\ Len(qOut.output_locations) < Len(qOut.all_locations)
    /\ qOut.output_locations[1] # qOut.all_locations[1]
    /\ qKey.exclude_locations # <<>>

\* C24: every input group of a call that returns is among the returned
\* output_locations, on the fast path and on the general path.
C24_InputsAreOutputs ==
    (qDone /\ qOut.err = "none") =>
        /\ Range(qKey.input_locations) \subseteq Range(qOut.output_locations)
        /\ Range(qOut.output_locations) \subseteq Range(qOut.all_locations)

\* a general-path call with two regions as inputs that drops some candidates
C24_Witness ==
    /\ qDone /\ qOut.err = "none" /\ ~qOut.fast
    /\ qKey.input_locations = <<"hhs2", "ny">>
    /\ Len(qOut.output_locations) < Len(qOut.all_locations)
    /\ Len(qOut.output_locations) > 2

\* C27: whenever the fast path is taken (the inputs contain every atom),
\* _determine_statespace run on the same H0 and W0 gives rank = number of
\* atoms, H = H0, W = W0 and every candidate selected: the result the fast
\* path returns.
C27_FastPathAgrees ==
    (qDone /\ qOut.err = "none" /\ qOut.fast) =>
        LET inner == _determine_statespace(qOut.H0, qOut.W0)
        IN  /\ inner.rank = Len(qOut.atoms)
            /\ inner.H = qOut.H0
            /\ inner.W = qOut.W0
            /\ inner.actual_rows = [i \in 1..Len(qOut.all_locations) |-> i]
            /\ astype_float(inner.H) = qOut.H
            /\ astype_float(inner.W) = qOut.W
            /\ [k \in 1..Len(inner.actual_rows) |->
                   qOut.all_locations[inner.actual_rows[k]]]
                   = qOut.output_locations

\* a fast-path call with a region among the inputs and the atoms out of
\* order: more inputs than atoms
C27_Witness ==
    /\ qDone /\ qOut.err = "none" /\ qOut.fast
    /\ qKey.input_locations = <<"ny", "jfk", "pa", "ny_minus_jfk">>
    /\ Len(qOut.atoms) = 3
    /\ qOut.H0[1] = <<Zero, Frac(1, 2), Frac(1, 2)>>

-----------------------------------------------------------------------------
(* Properties of the cached determine_statespace (Spec) *)

\* C5 as stated: no entry is ever evicted and a key whose result has been
\* stored is computed once.
C5_AsStated ==
    \A k \in ProcKeys :
        /\ evicted[k] = 0
        /\ k \in CachedKeys => computed[k] = 1

\* the state part of C5 amended
C5_CacheState ==
    /\ Len(cache) <= maxsize
    /\ \A i, j \in 1..Len(cache) : cache[i].key = cache[j].key => i = j
    /\ \A k \in ProcKeys :
          IF k \in CachedKeys THEN computed[k] = evicted[k] + 1
          ELSE evicted[k] > 0 => computed[k] = evicted[k]
    /\ last.hit =>
          /\ last.rows = 0 /\ last.elims = 0 /\ last.matmuls = 0
          /\ cache[Len(cache)] = [key |-> last.key, result |-> last.result]

\* the step part of C5 amended: an entry that stays keeps its result; an
\* entry leaves only as the least recent one of a full cache, when a new key
\* is stored; a query of a cached key runs nothing
C5_CacheStep ==
    /\ \A i \in 1..Len(cache) :
          \/ \E j \in 1..Len(cache') : cache'[j] = cache[i]
          \/ /\ i = 1
             /\ Len(cache) = maxsize
             /\ Len(cache') = maxsize
             /\ cache'[maxsize].key \notin CachedKeys
    /\ \A k \in CachedKeys : computed'[k] = computed[k]

\* C5 amended: the cache holds at most 16 entries.  While a key's entry is in
\* the cache it is never replaced or invalidated and every query of the key
\* returns it without recomputation; storing a 17th key evicts the least
\* recently used entry, and a key is computed once per stay in the cache.
C5_ComputedOncePerStay == [](C5_CacheState) /\ [][C5_CacheStep]_vars

\* the first key was evicted, queried again and computed a second time
C5_Witness ==
    /\ evicted[Key(1)] = 1
    /\ computed[Key(1)] = 2
    /\ Key(1) \in CachedKeys
    /\ Len(cache) = maxsize

\* the latest call was made with overlapping inputs and exclusions
LastOverlaps ==
    /\ last.err # "no call yet"
    /\ Overlap(last.key.input_locations, last.key.exclude_locations)

\* C10: a call whose exclude_locations shares an identifier with
\* input_locations raises the overlap error at once: no weight row is built,
\* nothing is eliminated or multiplied, nothing is returned, and the cache
\* is left as it was (no overlapping key is ever in it).
C10_OverlapFailsFirst ==
    /\ [](LastOverlaps =>
             /\ last.err = "input contains excluded locations"
             /\ ~last.hit
             /\ last.rows = 0 /\ last.elims = 0 /\ last.matmuls = 0
             /\ last.result = NoResult)
    /\ [](\A i \in 1..Len(cache) :
             ~Overlap(cache[i].key.input_locations,
                      cache[i].key.exclude_locations))
    /\ [][LastOverlaps' => cache' = cache]_vars

\* an overlapping key was queried, with results in the cache
C10_Witness ==
    /\ LastOverlaps
    /\ last.key.input_locations = <<"pa", "vi">>
    /\ computed[last.key] = 1
    /\ Len(cache) >= 2

\* C12: every call made with a key returns what the first call made with
\* that key returned, whatever calls were made in between and whether the
\* entry was still cached, or was evicted and the body ran again.
C12_SameKeySameResult ==
    last.err # "no call yet" =>
        /\ firstOut[last.key].called
        /\ last.err = firstOut[last.key].err
        /\ last.result = firstOut[last.key].result

\* the first key was evicted and computed afresh, with the first result
C12_Witness ==
    /\ last.key = Key(1)
    /\ ~last.hit
    /\ evicted[Key(1)] = 1
    /\ computed[Key(1)] = 2
    /\ last.result # NoResult
    /\ last.result = firstOut[Key(1)].result

\* the latest call raised
LastFailed == last.err \notin {"none", "no call yet"}

\* C15: a call that raises hands the caller the exception of the body and no
\* result, and leaves the cache as it was; the key is not cached, so a later
\* call with the same key runs the body and raises the same error again.
C15_FailureLeavesNoTrace ==
    /\ [](LastFailed =>
             /\ last.err \in {"input contains excluded locations", "KeyError",
                              "location has no constituent atoms", "ValueError"}
             /\ last.result = NoResult
             /\ ~last.hit
             /\ last.key \notin CachedKeys)
    /\ []((last.err # "no call yet" /\ firstOut[last.key].err # "none") =>
             /\ LastFailed
             /\ last.err = firstOut[last.key].err)
    /\ [][LastFailed' => cache' = cache]_vars

\* a key whose body raises after building a weight row was called twice,
\* with results of other keys in the cache
C15_Witness ==
    /\ last.err = "KeyError"
    /\ last.rows = 2
    /\ computed[last.key] = 2
    /\ Len(cache) >= 2

-----------------------------------------------------------------------------
(* Properties of concurrent calls (SpecConc) *)

\* C13: in every interleaving of two callers the cache holds at most one entry
\* per key; two callers that called with the same key received equal
\* outcomes; and the entry of a key holds the result its callers received.
C13_ConcurrentSameKey ==
    /\ \A i, j \in 1..Len(cache) : cache[i].key = cache[j].key => i = j
    /\ \A t, u \in Threads :
          (thr[t].out.called /\ thr[u].out.called /\ thr[t].key = thr[u].key)
              => thr[t].out = thr[u].out
    /\ \A t \in Threads :
          (thr[t].out.called /\ thr[t].out.err = "none") =>
              /\ thr[t].key \in CachedKeys
              /\ \A i \in 1..Len(cache) :
                    cache[i].key = thr[t].key => cache[i].result = thr[t].out.result

\* both callers ran the body for the same key at the same time, and both
\* have returned
C13_Witness ==
    /\ thr[1].out.called /\ thr[2].out.called
    /\ thr[1].key = thr[2].key
    /\ thr[1].calls = 1 /\ thr[2].calls = 1
    /\ computed[thr[1].key] = 2
    /\ thr[1].out.err = "none"
    /\ thr[1].key \in CachedKeys

-----------------------------------------------------------------------------
(* Properties of the epiweek arithmetic (SpecWeek) *)

\* the number of epiweeks of the known years before the year
WeeksBefore(year) ==
    52 * (year - 1900)
      + Cardinality({y \in 1900..(year - 1) : get_num_weeks(y) = 53})

\* the position of an epiweek, counting from the first week of 1900
Ordinal(epiweek) ==
    WeeksBefore(split_epiweek(epiweek)[1]) + split_epiweek(epiweek)[2]

\* a week between 1 and the 52 or 53 weeks of a year from 1900 to 2099
ValidEpiweek(epiweek) ==
    /\ 1900 <= split_epiweek(epiweek)[1]
    /\ split_epiweek(epiweek)[1] <= 2099
    /\ 1 <= split_epiweek(epiweek)[2]
    /\ split_epiweek(epiweek)[2] <= get_num_weeks(split_epiweek(epiweek)[1])

\* shifting the epiweek by i weeks stays within the years 1900 to 2099
ShiftInRange ==
    /\ 1 <= Ordinal(wkEw) + wkI
    /\ Ordinal(wkEw) + wkI <= WeeksBefore(2100)

\* C30: for a valid epiweek ew and a shift i that stays within 1900..2099,
\* add_epiweeks(ew, i) returns the valid epiweek i weeks from ew,
\* delta_epiweeks(ew, add_epiweeks(ew, i)) returns i, and
\* add_epiweeks(add_epiweeks(ew, i), -i) returns ew.
C30_AddDeltaInverse ==
    (wkPc # "start" /\ ValidEpiweek(wkEw) /\ ShiftInRange) =>
        /\ wkSum.err = "none"
        /\ ValidEpiweek(wkSum.val)
        /\ Ordinal(wkSum.val) = Ordinal(wkEw) + wkI
        /\ wkPc \in {"measured", "returned"} =>
              wkDelta = [err |-> "none", val |-> wkI]
        /\ wkPc = "returned" => wkBack = [err |-> "none", val |-> wkEw]

\* sixty weeks from the week before the 53rd week of 2014: through a year
\* of 53 weeks and a year of 52 weeks, and back
C30_Witness ==
    /\ wkPc = "returned"
    /\ wkEw = 201452
    /\ wkI = 60
    /\ wkSum = [err |-> "none", val |-> 201607]
    /\ wkDelta.val = 60
    /\ wkBack.val = 201452

=============================================================================
